---- MODULE Spec2Model ----
(***************************************************************************)
(* Camera Lister: the Device Lister Adapter (CameraListerWrapper), the     *)
(* list-cameras handlers of the main process, and the renderer's refresh   *)
(* (loadCameras) with its best-effort merge with the OS media devices.     *)
(*                                                                         *)
(* Text is modelled as a sequence of one-character strings, so that        *)
(* toLowerCase, trim, toString(16), padStart, parseInt and the label       *)
(* pattern are computed character by character.                            *)
(***************************************************************************)
EXTENDS Integers, Sequences, FiniteSets, TLC

(***************************************************************************)
(* Characters and JavaScript string primitives                             *)
(***************************************************************************)
UpperChars == <<"A","B","C","D","E","F","G","H","I","J","K","L","M",
                "N","O","P","Q","R","S","T","U","V","W","X","Y","Z">>

LowerChars == <<"a","b","c","d","e","f","g","h","i","j","k","l","m",
                "n","o","p","q","r","s","t","u","v","w","x","y","z">>

DigitChars == <<"0","1","2","3","4","5","6","7","8","9">>

HexChars == <<"0","1","2","3","4","5","6","7","8","9","a","b","c","d","e","f">>

IndexOf(seq, c) ==
    IF \E i \in 1..Len(seq) : seq[i] = c
    THEN CHOOSE i \in 1..Len(seq) : seq[i] = c
    ELSE 0

Range(seq) == {seq[i] : i \in 1..Len(seq)}

UpperSet == Range(UpperChars)

LowerOf == [c \in UpperSet |-> LowerChars[IndexOf(UpperChars, c)]]

\* String.prototype.toLowerCase, one character
toLowerChar(c) == IF c \in UpperSet THEN LowerOf[c] ELSE c

\* String.prototype.toLowerCase
toLowerCase(s) == [i \in 1..Len(s) |-> toLowerChar(s[i])]

\* white space as String.prototype.trim and the pattern's \s see it
IsSpace(c) == c \in {" ", "\t", "\n"}

RECURSIVE trimStart(_)
trimStart(s) ==
    IF s # <<>> /\ IsSpace(Head(s)) THEN trimStart(Tail(s)) ELSE s

RECURSIVE trimEnd(_)
trimEnd(s) ==
    IF s # <<>> /\ IsSpace(s[Len(s)]) THEN trimEnd(SubSeq(s, 1, Len(s) - 1)) ELSE s

\* String.prototype.trim
trim(s) == trimEnd(trimStart(s))

HexCharSet == Range(HexChars) \cup {"A", "B", "C", "D", "E", "F"}

HexValueOf == [c \in HexCharSet |-> IndexOf(HexChars, toLowerChar(c)) - 1]

IsHexChar(c) == c \in HexCharSet

\* value of a hexadecimal digit of either case, -1 for any other character
HexVal(c) == IF IsHexChar(c) THEN HexValueOf[c] ELSE -1

\* \w of the pattern: letters, digits and the underscore
WordChars == Range(UpperChars) \cup Range(LowerChars) \cup Range(DigitChars) \cup {"_"}

IsWordChar(c) == c \in WordChars

\* Number.prototype.toString(16) for a non-negative integer
RECURSIVE toString16(_)
toString16(n) ==
    IF n < 16 THEN <<HexChars[n + 1]>>
    ELSE Append(toString16(n \div 16), HexChars[(n % 16) + 1])

\* String.prototype.padStart(targetLength, padChar)
RECURSIVE padStart(_, _, _)
padStart(s, targetLength, c) ==
    IF Len(s) >= targetLength THEN s ELSE padStart(<<c>> \o s, targetLength, c)

\* the value parseInt gives when no digit can be read
NaN == -1000000

RECURSIVE HexDigitsValue(_, _)
HexDigitsValue(s, acc) ==
    IF s = <<>> \/ ~IsHexChar(Head(s)) THEN acc
    ELSE HexDigitsValue(Tail(s), acc * 16 + HexVal(Head(s)))

\* the digits of parseInt(s, 16): the longest run of hex digits
parseDigits(w) ==
    IF w = <<>> \/ ~IsHexChar(Head(w)) THEN NaN ELSE HexDigitsValue(w, 0)

\* an optional 0x / 0X prefix, then the digits
parsePrefixed(u) ==
    IF Len(u) >= 2 /\ u[1] = "0" /\ u[2] \in {"x", "X"}
    THEN parseDigits(SubSeq(u, 3, Len(u)))
    ELSE parseDigits(u)

negated(n) == IF n = NaN THEN NaN ELSE 0 - n

\* an optional sign, then the rest
parseSigned(t) ==
    IF t # <<>> /\ Head(t) = "-" THEN negated(parsePrefixed(Tail(t)))
    ELSE IF t # <<>> /\ Head(t) = "+" THEN parsePrefixed(Tail(t))
    ELSE parsePrefixed(t)

\* parseInt(s, 16): skips leading white space, an optional sign and an
\* optional 0x/0X prefix, then reads the longest run of hex digits
parseInt16(s) == parseSigned(trimStart(s))

\* String.prototype.includes
includes(s, sub) ==
    \E i \in 1..(Len(s) - Len(sub) + 1) : SubSeq(s, i, i + Len(sub) - 1) = sub

\* variant of toHex that leaves the padding out
toHexUnpadded(n) == <<"0", "x">> \o toString16(n)

\* variant of toHex that leaves the radix out: n.toString()
RECURSIVE decimalDigits(_)
decimalDigits(n) ==
    IF n < 10 THEN <<DigitChars[n + 1]>>
    ELSE Append(decimalDigits(n \div 10), DigitChars[(n % 10) + 1])

toHexDecimal(n) == <<"0", "x">> \o padStart(decimalDigits(n), 4, "0")

\* `0x${n.toString(16).padStart(4, '0')}`
toHex(n) == <<"0", "x">> \o padStart(toString16(n), 4, "0")

(***************************************************************************)
(* Label Correlator: extractVendorProductFromLabel                         *)
(***************************************************************************)
WordAt(s, p) == p >= 1 /\ p <= Len(s) /\ IsWordChar(s[p])

\* \b at the gap before position p
WordBoundary(s, p) == WordAt(s, p - 1) # WordAt(s, p)

\* [0-9a-fA-F]{n} at position p
HexRun(s, p, n) == p + n - 1 <= Len(s) /\ \A k \in p..(p + n - 1) : IsHexChar(s[k])

\* \s* at position p: the position after the white space
RECURSIVE SkipSpaces(_, _)
SkipSpaces(s, p) ==
    IF p <= Len(s) /\ IsSpace(s[p]) THEN SkipSpaces(s, p + 1) ELSE p

\* ([0-9a-fA-F]{m})(?:\)|\]|\b) at position r
SecondGroupMatches(s, r, m) ==
    /\ HexRun(s, r, m)
    /\ \/ (r + m <= Len(s) /\ s[r + m] \in {")", "]"})
       \/ WordBoundary(s, r + m)

\* variant of SeparatorMatches whose separator class holds the colon only
SeparatorMatchesColonOnly(s, q, m) ==
    /\ q <= Len(s)
    /\ s[q] = ":"
    /\ SecondGroupMatches(s, SkipSpaces(s, q + 1), m)

\* [:x]\s*([0-9a-fA-F]{m})(?:\)|\]|\b) at position q
SeparatorMatches(s, q, m) ==
    /\ q <= Len(s)
    /\ s[q] \in {":", "x"}
    /\ SecondGroupMatches(s, SkipSpaces(s, q + 1), m)

\* ([0-9a-fA-F]{n})\s*[:x]\s*([0-9a-fA-F]{m})(?:\)|\]|\b) with group 1 at g
GroupsMatch(s, g, n, m) ==
    /\ HexRun(s, g, n)
    /\ SeparatorMatches(s, SkipSpaces(s, g + n), m)

\* the quantifiers {3,4} are greedy: 4 is tried before 3, group 1 first
GroupLengths == << <<4, 4>>, <<4, 3>>, <<3, 4>>, <<3, 3>> >>

NoMatch == [found |-> FALSE]

\* the two captured groups
CapturedAt(s, g, n, r, m) ==
    [found |-> TRUE, g1 |-> SubSeq(s, g, g + n - 1), g2 |-> SubSeq(s, r, r + m - 1)]

Captured(s, g, n, m) ==
    CapturedAt(s, g, n, SkipSpaces(s, SkipSpaces(s, g + n) + 1), m)

\* the group lengths tried in order from the k-th on
RECURSIVE MatchGroupsFrom(_, _, _)
MatchGroupsFrom(s, g, k) ==
    IF k > Len(GroupLengths) THEN NoMatch
    ELSE IF GroupsMatch(s, g, GroupLengths[k][1], GroupLengths[k][2])
    THEN Captured(s, g, GroupLengths[k][1], GroupLengths[k][2])
    ELSE MatchGroupsFrom(s, g, k + 1)

MatchGroups(s, g) == MatchGroupsFrom(s, g, 1)

\* the pattern tried at start position i: (?:\(|\[|\b) in that order.  After
\* an opening bracket at i the alternative \b cannot succeed, because group
\* 1 would have to begin with the bracket.
MatchAt(s, i) ==
    IF s[i] \in {"(", "["} THEN MatchGroups(s, i + 1)
    ELSE IF WordBoundary(s, i) THEN MatchGroups(s, i)
    ELSE NoMatch

\* the first start position at or after i where the pattern matches
RECURSIVE firstMatchFrom(_, _)
RECURSIVE matchOrNext(_, _, _)
firstMatchFrom(s, i) ==
    IF i > Len(s) THEN NoMatch ELSE matchOrNext(MatchAt(s, i), s, i)

matchOrNext(m, s, i) == IF m.found THEN m ELSE firstMatchFrom(s, i + 1)

\* label.match(pattern): the leftmost match
labelMatch(s) == firstMatchFrom(s, 1)

\* `${v.toString(16)}:${p.toString(16)}`
pairKeyOf(v, p) == toString16(v) \o <<":">> \o toString16(p)

\* the value returned once both groups are parsed
parsedPair(v, p) ==
    IF v = NaN \/ p = NaN THEN NoMatch
    ELSE [found |-> TRUE, vendor |-> v, product |-> p, pairKey |-> pairKeyOf(v, p)]

\* variant of parsedMatch whose key is built from the matched text
parsedMatchTextKey(m) ==
    IF ~m.found THEN NoMatch
    ELSE [found |-> TRUE, vendor |-> parseInt16(m.g1), product |-> parseInt16(m.g2),
          pairKey |-> m.g1 \o <<":">> \o m.g2]

parsedMatch(m) ==
    IF ~m.found THEN NoMatch ELSE parsedPair(parseInt16(m.g1), parseInt16(m.g2))

extractVendorProductFromLabel(label) == parsedMatch(labelMatch(label))

(***************************************************************************)
(* Bounds and the inputs the environment can supply                        *)
(***************************************************************************)
\* longest device list the USB library returns to a list-cameras handler
MaxDevices == 1

\* longest device list the OS media enumeration returns during a refresh
MaxMediaDevices == 1

\* longest adapter list A and OS list B of the merge step on its own
MaxListA == 2

MaxListB == 2

\* a || b on strings: the empty string is falsy
OrElse(a, b) == IF a # <<>> THEN a ELSE b

NameCamA == <<"C","a","m"," ","A">>

NameCamB == <<"C","a","m"," ","B">>

\* raw descriptors as the USB library reports them
DevicePool ==
    { [name |-> NameCamA, vendor |-> 1133, product |-> 2093, address |-> 66],
      [name |-> NameCamA, vendor |-> 1133, product |-> 2093, address |-> 67],
      [name |-> NameCamB, vendor |-> 0, product |-> 65535, address |-> 5] }

RECURSIVE SeqsUpTo(_, _)
SeqsUpTo(S, n) ==
    IF n = 0 THEN {<<>>}
    ELSE LET shorter == SeqsUpTo(S, n - 1)
         IN  shorter \cup {Append(q, x) : q \in {t \in shorter : Len(t) = n - 1}, x \in S}

DeviceLists == SeqsUpTo(DevicePool, MaxDevices)

\* labels the OS reports: a name of the adapter's list in another case and
\* with padding, a label carrying an id pair of the adapter's list in upper
\* case, a label with a new id pair, a label with the id pair of the
\* adapter's zero-vendor entry, a hidden (empty) label
LabelPool ==
    { <<" ","c","A","M"," ","a"," ">>,
      <<"W","e","b"," ","(","0","4","6","D",":","0","8","2","D",")">>,
      <<"C","a","m"," ","B"," ","(","0","f","d","9",":","0","0","7","8",")">>,
      <<"C","a","m"," ","B"," ","[","0","0","0","0","x","F","F","F","F","]">>,
      <<>> }

\* kind and label of the devices the OS can report
MediaDevicePool ==
    {[kind |-> "videoinput", label |-> l] : l \in LabelPool}
    \cup {[kind |-> "audioinput", label |-> NameCamB]}

\* the OS gives every device of a list its own handle
withHandles(q) ==
    [i \in 1..Len(q) |->
        [kind |-> q[i].kind, label |-> q[i].label,
         deviceId |-> <<"d", DigitChars[i + 1]>>, groupId |-> <<"g">>]]

MediaDeviceLists == {withHandles(q) : q \in SeqsUpTo(MediaDevicePool, MaxMediaDevices)}

MergeDeviceLists == SeqsUpTo(DevicePool, MaxListA)

MergeMediaLists == {withHandles(q) : q \in SeqsUpTo(MediaDevicePool, MaxListB)}

\* values the USB library's discovery can throw: Error objects and one
\* plain object that is not an Error
ThrownValues ==
    { [isError |-> TRUE, message |-> <<"usb open failed: ", "LIBUSB_ERROR_ACCESS">>],
      [isError |-> TRUE, message |-> <<"LIBUSB_ERROR_NOT_FOUND">>],
      [isError |-> TRUE, message |-> <<"LIBUSB_ERROR_IO">>],
      [isError |-> FALSE, message |-> <<"LIBUSB_ERROR_ACCESS">>] }

\* outcomes of uvcDeviceLister.get()
DiscoveryOutcomes ==
    {[ok |-> TRUE, devices |-> d] : d \in DeviceLists}
    \cup {[ok |-> FALSE, thrown |-> e] : e \in ThrownValues}

(***************************************************************************)
(* Device Lister Adapter: CameraListerWrapper                              *)
(* A message is a sequence of text fragments.                              *)
(***************************************************************************)
AccessDeniedMessage ==
    << "Permission denied accessing USB devices. ",
       "On Linux, you may need to run with sudo or configure udev rules. ",
       "See USAGE.md for more information." >>

NotFoundMessage ==
    << "No UVC-compatible cameras found", ". ",
       "Make sure your camera is connected and supports USB Video Class (UVC)." >>

toCameraDevice(device) ==
    [ name |-> device.name,
      vendor |-> device.vendor,
      product |-> device.product,
      address |-> device.address,
      vendorHex |-> toHex(device.vendor),
      productHex |-> toHex(device.product) ]

\* variant of rethrown that compares the whole message with the code
rethrownOnExactMessage(error) ==
    IF error.isError /\ error.message = <<"LIBUSB_ERROR_ACCESS">>
    THEN [isError |-> TRUE, message |-> AccessDeniedMessage]
    ELSE IF error.isError /\ error.message = <<"LIBUSB_ERROR_NOT_FOUND">>
    THEN [isError |-> TRUE, message |-> NotFoundMessage]
    ELSE error

\* variant of rethrown that wraps every other failure in a new Error
rethrownWrapped(error) ==
    IF error.isError /\ includes(error.message, <<"LIBUSB_ERROR_ACCESS">>)
    THEN [isError |-> TRUE, message |-> AccessDeniedMessage]
    ELSE IF error.isError /\ includes(error.message, <<"LIBUSB_ERROR_NOT_FOUND">>)
    THEN [isError |-> TRUE, message |-> NotFoundMessage]
    ELSE [isError |-> TRUE, message |-> <<"Failed to list cameras: ">> \o error.message]

\* the catch block of listCameras: the value it re-throws
rethrown(error) ==
    IF error.isError /\ includes(error.message, <<"LIBUSB_ERROR_ACCESS">>)
    THEN [isError |-> TRUE, message |-> AccessDeniedMessage]
    ELSE IF error.isError /\ includes(error.message, <<"LIBUSB_ERROR_NOT_FOUND">>)
    THEN [isError |-> TRUE, message |-> NotFoundMessage]
    ELSE error

\* variant of listCameras that takes "not found" for "no cameras"
listCamerasNotFoundAsEmpty(outcome) ==
    IF outcome.ok
    THEN [ok |-> TRUE, cameras |-> [i \in 1..Len(outcome.devices) |-> toCameraDevice(outcome.devices[i])]]
    ELSE IF outcome.thrown.isError
            /\ includes(outcome.thrown.message, <<"LIBUSB_ERROR_NOT_FOUND">>)
    THEN [ok |-> TRUE, cameras |-> <<>>]
    ELSE [ok |-> FALSE, thrown |-> rethrown(outcome.thrown)]

\* listCameras on an outcome of the library's discovery
listCameras(outcome) ==
    IF outcome.ok
    THEN [ok |-> TRUE, cameras |-> [i \in 1..Len(outcome.devices) |-> toCameraDevice(outcome.devices[i])]]
    ELSE [ok |-> FALSE, thrown |-> rethrown(outcome.thrown)]

listConnectedCameras(outcome) == listCameras(outcome)

\* Number.prototype.toString() for a non-negative integer
RECURSIVE toString10(_)
toString10(n) ==
    IF n < 10 THEN <<DigitChars[n + 1]>>
    ELSE Append(toString10(n \div 10), DigitChars[(n % 10) + 1])

\* one block of getFormattedList
RECURSIVE formattedBlocks(_, _)
formattedBlocks(cams, index) ==
    IF index > Len(cams) THEN <<>>
    ELSE LET camera == cams[index]
             block == toString10(index) \o <<". ">> \o camera.name
                      \o <<"\n   Vendor: ">> \o camera.vendorHex
                      \o <<" (">> \o toString10(camera.vendor) \o <<")">>
                      \o <<"\n   Product: ">> \o camera.productHex
                      \o <<" (">> \o toString10(camera.product) \o <<")">>
                      \o <<"\n   Address: ">> \o toString10(camera.address)
         IN  block \o (IF index < Len(cams) THEN <<"\n", "\n">> ELSE <<>>)
                   \o formattedBlocks(cams, index + 1)

NoCamerasSentence == <<"No UVC-compatible cameras found", ".">>

\* variant of getFormattedList without the test for an empty list
getFormattedListAlwaysHeader(outcome) ==
    IF ~listCameras(outcome).ok THEN listCameras(outcome)
    ELSE [ok |-> TRUE,
          text |-> <<"Found ">> \o toString10(Len(listCameras(outcome).cameras))
                   \o <<" UVC-compatible camera(s):", "\n">>
                   \o formattedBlocks(listCameras(outcome).cameras, 1)]

\* getFormattedList on an outcome of the library's discovery
getFormattedList(outcome) ==
    LET r == listCameras(outcome)
    IN  IF ~r.ok THEN r
        ELSE IF Len(r.cameras) = 0 THEN [ok |-> TRUE, text |-> NoCamerasSentence]
        ELSE [ok |-> TRUE,
              text |-> <<"Found ">> \o toString10(Len(r.cameras))
                       \o <<" UVC-compatible camera(s):", "\n">>
                       \o formattedBlocks(r.cameras, 1)]

getCameraCount(outcome) ==
    LET r == listCameras(outcome)
    IN  IF r.ok THEN [ok |-> TRUE, count |-> Len(r.cameras)] ELSE r

\* an argument of findCamera: a number, or a string
NumberArg(n) == [isString |-> FALSE, value |-> n]

StringArg(text) == [isString |-> TRUE, text |-> text]

\* the position of the first "0x" in s, 0 when there is none
firstIndexOf0x(s) ==
    IF \E i \in 1..(Len(s) - 1) : s[i] = "0" /\ s[i + 1] = "x"
    THEN CHOOSE i \in 1..(Len(s) - 1) :
            /\ s[i] = "0" /\ s[i + 1] = "x"
            /\ \A j \in 1..(i - 1) : ~(s[j] = "0" /\ s[j + 1] = "x")
    ELSE 0

removeAt(s, i) == IF i = 0 THEN s ELSE SubSeq(s, 1, i - 1) \o SubSeq(s, i + 2, Len(s))

\* vendor.replace('0x', ''): the first occurrence is removed
replace0x(s) == removeAt(s, firstIndexOf0x(s))

\* variant of normalizeId that leaves a string argument unconverted, so
\* that it equals no number
normalizeIdUnparsed(arg) == IF arg.isString THEN NaN ELSE arg.value

\* typeof vendor === 'string' ? parseInt(vendor.replace('0x', ''), 16) : vendor
normalizeId(arg) ==
    IF arg.isString THEN parseInt16(replace0x(arg.text)) ELSE arg.value

\* null, or the record found
NullCamera == [isNull |-> TRUE]

FoundCamera(camera) == [isNull |-> FALSE, camera |-> camera]

\* variant of findFrom that keeps the last matching record
RECURSIVE findLastFrom(_, _, _, _)
findLastFrom(cams, vendorNum, productNum, i) ==
    IF i < 1 THEN NullCamera
    ELSE IF cams[i].vendor = vendorNum /\ cams[i].product = productNum
    THEN FoundCamera(cams[i])
    ELSE findLastFrom(cams, vendorNum, productNum, i - 1)

\* cameras.find(camera => camera.vendor === vendorNum &&
\*                        camera.product === productNum) || null, from i on
RECURSIVE findFrom(_, _, _, _)
findFrom(cams, vendorNum, productNum, i) ==
    IF i > Len(cams) THEN NullCamera
    ELSE IF cams[i].vendor = vendorNum /\ cams[i].product = productNum
    THEN FoundCamera(cams[i])
    ELSE findFrom(cams, vendorNum, productNum, i + 1)

findIn(r, vendorNum, productNum) ==
    IF r.ok THEN [ok |-> TRUE, value |-> findFrom(r.cameras, vendorNum, productNum, 1)]
    ELSE r

\* variant of findCamera that returns the last matching record
findCameraLast(outcome, vendor, product) ==
    IF listCameras(outcome).ok
    THEN [ok |-> TRUE,
          value |-> findLastFrom(listCameras(outcome).cameras, normalizeId(vendor),
                                 normalizeId(product), Len(listCameras(outcome).cameras))]
    ELSE listCameras(outcome)

\* findCamera on an outcome of the library's discovery
findCamera(outcome, vendor, product) ==
    findIn(listCameras(outcome), normalizeId(vendor), normalizeId(product))

(***************************************************************************)
(* Command Surface: the wrapper run as a process.  It reads no argument,   *)
(* prints the formatted list on stdout, or the error on stderr with        *)
(* exit status 1.                                                          *)
(***************************************************************************)
\* variant of the CLI block without process.exit(1) in its catch handler
commandSurfaceWithoutExit(outcome) ==
    LET r == getFormattedList(outcome)
    IN  IF r.ok
        THEN [spawned |-> TRUE, stdout |-> r.text \o <<"\n">>, stderr |-> <<>>, code |-> 0]
        ELSE [spawned |-> TRUE, stdout |-> <<>>,
              stderr |-> <<"Error listing cameras: ">> \o r.thrown.message \o <<"\n">>,
              code |-> 0]

commandSurface(outcome) ==
    LET r == getFormattedList(outcome)
    IN  IF r.ok
        THEN [spawned |-> TRUE, stdout |-> r.text \o <<"\n">>, stderr |-> <<>>, code |-> 0]
        ELSE [spawned |-> TRUE, stdout |-> <<>>,
              stderr |-> <<"Error listing cameras: ">> \o r.thrown.message \o <<"\n">>,
              code |-> 1]

\* the child process could not be started: the 'error' event
SpawnFailure ==
    [spawned |-> FALSE, stdout |-> <<>>, stderr |-> <<>>, code |-> 1]

SpawnErrorMessage == <<"spawn ENOENT">>

(***************************************************************************)
(* JSON text of a camera list, and JSON.parse as its inverse               *)
(***************************************************************************)
RECURSIVE jsonItems(_, _)
jsonItems(cams, index) ==
    IF index > Len(cams) THEN <<>>
    ELSE <<"{", "\"name\":\"">> \o cams[index].name
         \o <<"\",\"vendor\":">> \o toString10(cams[index].vendor)
         \o <<",\"product\":">> \o toString10(cams[index].product)
         \o <<",\"address\":">> \o toString10(cams[index].address)
         \o <<",\"vendorHex\":\"">> \o cams[index].vendorHex
         \o <<"\",\"productHex\":\"">> \o cams[index].productHex
         \o <<"\"", "}">>
         \o (IF index < Len(cams) THEN <<",">> ELSE <<>>)
         \o jsonItems(cams, index + 1)

jsonStringify(cams) == <<"[">> \o jsonItems(cams, 1) \o <<"]">>

CameraLists == {listCameras([ok |-> TRUE, devices |-> d]).cameras : d \in DeviceLists}

\* JSON.parse: the list whose JSON text this is, or a SyntaxError
jsonParse(text) ==
    IF \E cams \in CameraLists : jsonStringify(cams) = text
    THEN [ok |-> TRUE, value |-> CHOOSE cams \in CameraLists : jsonStringify(cams) = text]
    ELSE [ok |-> FALSE, message |-> <<"Unexpected token">>]

(***************************************************************************)
(* Main process: the two list-cameras handlers                             *)
(* A handler's answer is a resolved record {success, cameras, error} or a  *)
(* rejection carrying a message.                                           *)
(***************************************************************************)
Resolved(success, cams, error) ==
    [kind |-> "resolved", success |-> success, cameras |-> cams, error |-> error]

Rejected(message) ==
    [kind |-> "rejected", success |-> FALSE, cameras |-> <<>>, error |-> message]

\* maybe ? JSON.parse(maybe) : []
parseOutput(maybe) ==
    IF maybe # <<>> THEN jsonParse(maybe) ELSE [ok |-> TRUE, value |-> <<>>]

\* catch (spawnError): the failure answer of main.cjs
failureCjs(message, esmMessage) == Resolved(FALSE, <<>>, OrElse(message, esmMessage))

answerCjs(child, parsed, esmMessage) ==
    IF ~child.spawned
    THEN failureCjs(<<"Failed to execute camera listing: ">> \o SpawnErrorMessage, esmMessage)
    ELSE IF parsed.ok THEN Resolved(TRUE, parsed.value, <<>>)
    ELSE IF includes(child.stdout, <<"No UVC-compatible cameras found">>)
    THEN Resolved(TRUE, <<>>, <<>>)
    ELSE failureCjs(<<"Camera listing failed: ">> \o OrElse(child.stderr, child.stdout),
                    esmMessage)

\* main.cjs, child.on('close') and child.on('error') of the fallback,
\* followed by catch (spawnError)
closeHandlerCjs(child, esmMessage) ==
    answerCjs(child, parseOutput(trim(child.stdout)), esmMessage)

answerEsm(child, parsed) ==
    IF ~child.spawned
    THEN Rejected(<<"Failed to execute camera listing: ">> \o SpawnErrorMessage)
    ELSE IF child.code = 0
    THEN IF parsed.ok THEN Resolved(TRUE, parsed.value, <<>>)
         ELSE IF includes(child.stdout, <<"No UVC-compatible cameras found">>)
         THEN Resolved(TRUE, <<>>, <<>>)
         ELSE Rejected(<<"Failed to parse camera data: ">> \o parsed.message)
    ELSE Rejected(<<"Camera listing failed: ">> \o child.stderr)

\* main.js, child.on('close') and child.on('error'); a rejection of the
\* returned promise is not caught by the handler's try block
closeHandlerEsm(child) == answerEsm(child, parseOutput(trim(child.stdout)))

(***************************************************************************)
(* Merge Step: the loop of mergeWithMediaDevices                           *)
(***************************************************************************)
UnknownCamera == <<"U","n","k","n","o","w","n"," ","C","a","m","e","r","a">>

\* devices.filter(d => d.kind === 'videoinput')
RECURSIVE videoInputsOf(_)
videoInputsOf(devices) ==
    IF devices = <<>> THEN <<>>
    ELSE IF Head(devices).kind = "videoinput"
         THEN <<Head(devices)>> \o videoInputsOf(Tail(devices))
         ELSE videoInputsOf(Tail(devices))

\* new Set(cameras.map(c => (c.name || '').toLowerCase()))
existingNamesOf(cams) == {toLowerCase(cams[i].name) : i \in 1..Len(cams)}

\* variant of existingIdPairsOf without the test for nonzero ids
existingIdPairsOfAll(cams) ==
    {pairKeyOf(cams[i].vendor, cams[i].product) : i \in 1..Len(cams)}

\* the id-pair keys of the entries with both ids nonzero
existingIdPairsOf(cams) ==
    {pairKeyOf(cams[i].vendor, cams[i].product) :
        i \in {j \in 1..Len(cams) : cams[j].vendor # 0 /\ cams[j].product # 0}}

\* the record pushed for an accepted label; renderer.js also records the
\* OS device handle
entryOf(variant, v, label, vendor, product) ==
    IF variant = "headless"
    THEN [ name |-> label, vendor |-> vendor, product |-> product, address |-> 0,
           vendorHex |-> toHex(vendor), productHex |-> toHex(product),
           deviceId |-> v.deviceId, groupId |-> v.groupId ]
    ELSE [ name |-> label, vendor |-> vendor, product |-> product, address |-> 0,
           vendorHex |-> toHex(vendor), productHex |-> toHex(product) ]

\* variant of mergedEntry that names the entry by the untrimmed label
mergedEntryRawLabel(variant, v, label, parsed) ==
    entryOf(variant, v, OrElse(v.label, UnknownCamera),
            IF parsed.found THEN parsed.vendor ELSE 0,
            IF parsed.found THEN parsed.product ELSE 0)

mergedEntry(variant, v, label, parsed) ==
    entryOf(variant, v, label,
            IF parsed.found THEN parsed.vendor ELSE 0,
            IF parsed.found THEN parsed.product ELSE 0)

\* variant of skipsLabel that looks the pair key up in the set of names
skipsLabelPairInNames(variant, key, parsed, names, pairs) ==
    \/ (variant = "ui" /\ key \in names)
    \/ (parsed.found /\ parsed.pairKey \in names)

\* whether the loop body reaches `continue` for this label; only the
\* renderer with the state views keeps the set of names
skipsLabel(variant, key, parsed, names, pairs) ==
    \/ (variant = "ui" /\ key \in names)
    \/ (parsed.found /\ parsed.pairKey \in pairs)

\* for (const v of videoInputs) { ... }
RECURSIVE mergeLoop(_, _, _, _, _)
RECURSIVE mergeLabel(_, _, _, _, _, _, _)
mergeLoop(variant, videoInputs, cams, names, pairs) ==
    IF videoInputs = <<>> THEN cams
    ELSE mergeLabel(variant, videoInputs,
                    trim(OrElse(Head(videoInputs).label, UnknownCamera)),
                    extractVendorProductFromLabel(
                        trim(OrElse(Head(videoInputs).label, UnknownCamera))),
                    cams, names, pairs)

\* variant of mergeLabel that puts the new entry in front (unshift)
mergeLabelUnshift(variant, videoInputs, label, parsed, cams, names, pairs) ==
    IF skipsLabel(variant, toLowerCase(label), parsed, names, pairs)
    THEN mergeLoop(variant, Tail(videoInputs), cams, names, pairs)
    ELSE mergeLoop(variant, Tail(videoInputs),
                   <<mergedEntry(variant, Head(videoInputs), label, parsed)>> \o cams,
                   names \cup {toLowerCase(label)},
                   IF parsed.found THEN pairs \cup {parsed.pairKey} ELSE pairs)

\* the loop body for the trimmed label and what the correlator extracted
mergeLabel(variant, videoInputs, label, parsed, cams, names, pairs) ==
    IF skipsLabel(variant, toLowerCase(label), parsed, names, pairs)
    THEN mergeLoop(variant, Tail(videoInputs), cams, names, pairs)
    ELSE mergeLoop(variant, Tail(videoInputs),
                   Append(cams, mergedEntry(variant, Head(videoInputs), label, parsed)),
                   names \cup {toLowerCase(label)},
                   IF parsed.found THEN pairs \cup {parsed.pairKey} ELSE pairs)

\* the try block of mergeWithMediaDevices once enumerateDevices has answered
mergeWithMediaDevices(variant, cams, devices) ==
    mergeLoop(variant, videoInputsOf(devices), cams,
              existingNamesOf(cams), existingIdPairsOf(cams))

\* variant of camerasAfterMerge whose catch block empties the list
camerasAfterMergeCleared(variant, cams, ok, devices) ==
    IF ok THEN mergeWithMediaDevices(variant, cams, devices) ELSE <<>>

\* this.cameras after mergeWithMediaDevices: a rejection of enumerateDevices
\* reaches the catch block before the loop has pushed anything
camerasAfterMerge(variant, cams, ok, devices) ==
    IF ok THEN mergeWithMediaDevices(variant, cams, devices) ELSE cams

(***************************************************************************)
(* State                                                                   *)
(***************************************************************************)
VARIABLES
    shell,           \* which renderer runs: "headless" (renderer.js) or "ui"
    host,            \* which main process runs: "cjs" (main.cjs) or "esm" (main.js)
    cameras,         \* this.cameras of the renderer
    isLoading,       \* this.isLoading
    view,            \* the state elements shown (without the class `hidden`)
    errorMessage,    \* text the error state shows; empty while it is hidden
    pc,              \* where the loadCameras call in flight is suspended
    result,          \* the answer loadCameras received from listCameras()
    lastCall,        \* what the most recent loadCameras call did
    pendingCalls,    \* list-cameras requests issued and not yet answered
    mainPc,          \* where the list-cameras handler is suspended
    esmError,        \* message of the error caught as esmError
    reply,           \* the handler's answer on its way to the renderer
    currentCameras,  \* the main process's list behind the Devices menu
    updateQueue,     \* update-cameras messages not yet handled
    discovery,       \* outcome of the handler's latest discovery attempt
    media,           \* outcome of the merge's permission request and enumeration
    call,            \* latest call of a wrapper method or of the correlator on its own
    currentStream,   \* this.currentStream: 0 for null, or the number of a stream
    streams,         \* the preview streams getUserMedia has handed out
    selections,      \* the startStreamForCamera calls made, each with its position
    hadCameras       \* whether this.cameras held entries when the refresh in flight started

vars == << shell, host, cameras, isLoading, view, errorMessage, pc, result, lastCall,
           pendingCalls, mainPc, esmError, reply, currentCameras, updateQueue,
           discovery, media, call, currentStream, streams, selections,
           hadCameras >>

previewVars == << currentStream, streams, selections >>

\* const states = ['loadingState', 'errorState', 'emptyState', 'cameraList']
StateElements == {"loading", "error", "empty", "cameraList"}

\* hideAllStates: every state element gets the class `hidden`
hideAllStates(shown) == shown \ StateElements

showLoadingState(shown) == hideAllStates(shown) \cup {"loading"}

\* showErrorState also sets the text of #errorMessage, kept in errorMessage
showErrorState(shown) == hideAllStates(shown) \cup {"error"}

showEmptyState(shown) == hideAllStates(shown) \cup {"empty"}

showCameraList(shown) == hideAllStates(shown) \cup {"cameraList"}

NoReply == [kind |-> "none", success |-> FALSE, cameras |-> <<>>, error |-> <<>>]

NoDiscovery == [status |-> "none"]

\* the library's discovery ended with `outcome` and listCameras with `returned`
Discovered(outcome) ==
    [status |-> "done", lib |-> outcome, returned |-> listCameras(outcome)]

NoMedia == [permission |-> "none", enumerate |-> "none", devices |-> <<>>]

\* the application itself calls no wrapper method but listConnectedCameras
NoCall == [method |-> "none"]

\* the constructor has run init(), and loadCameras has run up to its await
Init ==
    /\ shell \in {"headless", "ui"}
    /\ host \in {"cjs", "esm"}
    /\ cameras = <<>>
    /\ isLoading = TRUE
    /\ view = IF shell = "ui" THEN showLoadingState({}) ELSE {}
    /\ errorMessage = <<>>
    /\ pc = "awaitList"
    /\ result = NoReply
    /\ lastCall = "started"
    /\ pendingCalls = 1
    /\ mainPc = "requested"
    /\ esmError = <<>>
    /\ reply = NoReply
    /\ currentCameras = <<>>
    /\ updateQueue = <<>>
    /\ discovery = NoDiscovery
    /\ media = NoMedia
    /\ call = NoCall
    /\ currentStream = 0
    /\ streams = <<>>
    /\ selections = <<>>
    /\ hadCameras = FALSE

(***************************************************************************)
(* Renderer: loadCameras                                                   *)
(***************************************************************************)
\* variant of loadCameras without the `if (this.isLoading) return` guard
loadCamerasUnguarded ==
    /\ lastCall' = "started"
    /\ isLoading' = TRUE
    /\ view' = IF shell = "ui" THEN showLoadingState(view) ELSE view
    /\ errorMessage' = <<>>
    /\ pc' = "awaitList"
    /\ result' = NoReply
    /\ pendingCalls' = pendingCalls + 1
    /\ mainPc' = "requested"
    /\ discovery' = NoDiscovery
    /\ media' = NoMedia
    /\ hadCameras' = (cameras # <<>>)
    /\ UNCHANGED << previewVars, call, shell, host, cameras, esmError, reply,
                    currentCameras, updateQueue >>

\* a refresh trigger (startup, F5 / Ctrl+R, refresh or retry button, menu
\* refresh) calls loadCameras; it runs up to `await listCameras()`
loadCameras ==
    IF isLoading
    THEN /\ lastCall' = "ignored"
         /\ UNCHANGED << hadCameras, previewVars, call, shell, host, cameras, isLoading, view, errorMessage, pc, result,
                         pendingCalls, mainPc, esmError, reply, currentCameras,
                         updateQueue, discovery, media >>
    ELSE /\ lastCall' = "started"
         /\ isLoading' = TRUE
         /\ view' = IF shell = "ui" THEN showLoadingState(view) ELSE view
         /\ errorMessage' = <<>>
         /\ pc' = "awaitList"
         /\ result' = NoReply
         /\ pendingCalls' = pendingCalls + 1
         /\ mainPc' = "requested"
         /\ discovery' = NoDiscovery
         /\ media' = NoMedia
         /\ hadCameras' = (cameras # <<>>)
         /\ UNCHANGED << previewVars, call, shell, host, cameras, esmError, reply,
                         currentCameras, updateQueue >>

\* how ipcRenderer.invoke reports a rejected handler
InvokeErrorPrefix == <<"Error invoking remote method 'list-cameras': ", "Error: ">>

\* message of the error that reaches the catch block of loadCameras
caughtMessage(answer) ==
    IF answer.kind = "rejected" THEN InvokeErrorPrefix \o answer.error
    ELSE OrElse(answer.error, <<"Failed to load cameras">>)

\* variant of ReceiveListResult whose failure branch leaves isLoading set
ReceiveListResultWithoutFinally ==
    /\ pc = "awaitList"
    /\ reply.kind # "none"
    /\ result' = reply
    /\ reply' = NoReply
    /\ pendingCalls' = pendingCalls - 1
    /\ IF reply.kind = "resolved" /\ reply.success
       THEN /\ cameras' = reply.cameras
            /\ pc' = "awaitPermission"
            /\ UNCHANGED << isLoading, view, errorMessage >>
       ELSE /\ view' = IF shell = "ui" THEN showErrorState(view) ELSE view
            /\ errorMessage' = IF shell = "ui" THEN caughtMessage(reply) ELSE errorMessage
            /\ pc' = "idle"
            /\ UNCHANGED << isLoading, cameras >>
    /\ UNCHANGED << hadCameras, previewVars, call, shell, host, lastCall, mainPc, esmError,
                    currentCameras, updateQueue, discovery, media >>

\* variant of ReceiveListResult that keeps the known list when the answer
\* holds no camera
ReceiveListResultKeepingList ==
    /\ pc = "awaitList"
    /\ reply.kind # "none"
    /\ result' = reply
    /\ reply' = NoReply
    /\ pendingCalls' = pendingCalls - 1
    /\ IF reply.kind = "resolved" /\ reply.success
       THEN /\ cameras' = IF reply.cameras = <<>> THEN cameras ELSE reply.cameras
            /\ pc' = "awaitPermission"
            /\ UNCHANGED << isLoading, view, errorMessage >>
       ELSE /\ view' = IF shell = "ui" THEN showErrorState(view) ELSE view
            /\ errorMessage' = IF shell = "ui" THEN caughtMessage(reply) ELSE errorMessage
            /\ isLoading' = FALSE
            /\ pc' = "idle"
            /\ UNCHANGED cameras
    /\ UNCHANGED << hadCameras, previewVars, call, shell, host, lastCall, mainPc, esmError,
                    currentCameras, updateQueue, discovery, media >>

\* variant of ReceiveListResult with a timeout: the wait may end without an
\* answer, as a failure
ReceiveListResultOrTimeout ==
    /\ pc = "awaitList"
    /\ result' = reply
    /\ reply' = NoReply
    /\ pendingCalls' = pendingCalls - 1
    /\ IF reply.kind = "resolved" /\ reply.success
       THEN /\ cameras' = reply.cameras
            /\ pc' = "awaitPermission"
            /\ UNCHANGED << isLoading, view, errorMessage >>
       ELSE /\ view' = IF shell = "ui" THEN showErrorState(view) ELSE view
            /\ errorMessage' = IF shell = "ui" THEN caughtMessage(reply) ELSE errorMessage
            /\ isLoading' = FALSE
            /\ pc' = "idle"
            /\ UNCHANGED cameras
    /\ UNCHANGED << hadCameras, previewVars, call, shell, host, lastCall, mainPc, esmError,
                    currentCameras, updateQueue, discovery, media >>

\* loadCameras resumes with the answer to listCameras()
ReceiveListResult ==
    /\ pc = "awaitList"
    /\ reply.kind # "none"
    /\ result' = reply
    /\ reply' = NoReply
    /\ pendingCalls' = pendingCalls - 1
    /\ IF reply.kind = "resolved" /\ reply.success
       THEN /\ cameras' = reply.cameras
            /\ pc' = "awaitPermission"
            /\ UNCHANGED << isLoading, view, errorMessage >>
       ELSE /\ view' = IF shell = "ui" THEN showErrorState(view) ELSE view
            /\ errorMessage' = IF shell = "ui" THEN caughtMessage(reply) ELSE errorMessage
            /\ isLoading' = FALSE
            /\ pc' = "idle"
            /\ UNCHANGED cameras
    /\ UNCHANGED << hadCameras, previewVars, call, shell, host, lastCall, mainPc, esmError, currentCameras, updateQueue,
                    discovery, media >>

\* ensureCameraPermission: the getUserMedia request settles; a rejection is
\* caught inside ensureCameraPermission and the merge goes on
PermissionSettled ==
    /\ pc = "awaitPermission"
    /\ \E granted \in BOOLEAN :
          media' = [media EXCEPT !.permission = IF granted THEN "granted" ELSE "denied"]
    /\ pc' = "awaitEnumerate"
    /\ UNCHANGED << hadCameras, previewVars, call, shell, host, cameras, isLoading, view, errorMessage, result, lastCall,
                    pendingCalls, mainPc, esmError, reply, currentCameras, updateQueue,
                    discovery >>

\* enumerateDevices settles; the merge loop runs, or its rejection is caught
\* by mergeWithMediaDevices; loadCameras then runs to its end
EnumerateSettledFrom(lists) ==
    /\ pc = "awaitEnumerate"
    /\ \E ok \in BOOLEAN, devices \in lists :
          /\ ~ok => devices = <<>>
          /\ media' = [media EXCEPT !.enumerate = IF ok THEN "ok" ELSE "failed",
                                    !.devices = devices]
          /\ cameras' = camerasAfterMerge(shell, cameras, ok, devices)
    /\ updateQueue' = IF shell = "headless" /\ host = "cjs"
                      THEN Append(updateQueue, cameras') ELSE updateQueue
    /\ view' = IF shell = "ui"
               THEN (IF Len(cameras') = 0 THEN showEmptyState(view)
                                          ELSE showCameraList(view))
               ELSE view
    /\ isLoading' = FALSE
    /\ pc' = "idle"
    /\ UNCHANGED << hadCameras, previewVars, call, shell, host, errorMessage, result, lastCall, pendingCalls, mainPc,
                    esmError, reply, currentCameras, discovery >>

EnumerateSettled == EnumerateSettledFrom(MediaDeviceLists)

(***************************************************************************)
(* Main process: ipcMain.handle('list-cameras') and 'update-cameras'       *)
(***************************************************************************)
\* the request reaches the handler, after the messages sent before it
HandleListCameras ==
    /\ mainPc = "requested"
    /\ updateQueue = <<>>
    /\ mainPc' = IF host = "cjs" THEN "import" ELSE "child"
    /\ esmError' = <<>>
    /\ UNCHANGED << hadCameras, previewVars, call, shell, host, cameras, isLoading, view, errorMessage, pc, result,
                    lastCall, pendingCalls, reply, currentCameras, updateQueue,
                    discovery, media >>

ImportFailureMessage == <<"Cannot find module">>

\* main.cjs: import of the wrapper and `await listConnectedCameras()`
ImportWrapper ==
    /\ mainPc = "import"
    /\ \E imported \in BOOLEAN, outcome \in DiscoveryOutcomes :
          LET r == listConnectedCameras(outcome)
          IN  IF imported /\ r.ok
              THEN /\ currentCameras' = r.cameras
                   /\ reply' = Resolved(TRUE, r.cameras, <<>>)
                   /\ mainPc' = "idle"
                   /\ discovery' = Discovered(outcome)
                   /\ UNCHANGED esmError
              ELSE /\ esmError' = IF imported THEN r.thrown.message ELSE ImportFailureMessage
                   /\ discovery' = IF imported THEN Discovered(outcome) ELSE discovery
                   /\ mainPc' = "child"
                   /\ UNCHANGED << currentCameras, reply >>
    /\ UNCHANGED << hadCameras, previewVars, call, shell, host, cameras, isLoading, view, errorMessage, pc, result,
                    lastCall, pendingCalls, updateQueue, media >>

\* the subprocess ends (or could not be started) and the handler answers
ChildClose ==
    /\ mainPc = "child"
    /\ \E spawned \in BOOLEAN, outcome \in DiscoveryOutcomes :
          LET child == IF spawned THEN commandSurface(outcome) ELSE SpawnFailure
          IN  /\ discovery' = IF spawned THEN Discovered(outcome) ELSE discovery
              /\ reply' = IF host = "cjs" THEN closeHandlerCjs(child, esmError)
                          ELSE closeHandlerEsm(child)
    /\ currentCameras' = IF host = "cjs" THEN reply'.cameras ELSE currentCameras
    /\ mainPc' = "idle"
    /\ esmError' = <<>>
    /\ UNCHANGED << hadCameras, previewVars, call, shell, host, cameras, isLoading, view, errorMessage, pc, result,
                    lastCall, pendingCalls, updateQueue, media >>

\* ipcMain.on('update-cameras')
HandleUpdateCameras ==
    /\ updateQueue # <<>>
    /\ currentCameras' = Head(updateQueue)
    /\ updateQueue' = Tail(updateQueue)
    /\ UNCHANGED << hadCameras, previewVars, call, shell, host, cameras, isLoading, view, errorMessage, pc, result,
                    lastCall, pendingCalls, mainPc, esmError, reply, discovery, media >>

Next ==
    \/ loadCameras
    \/ ReceiveListResult
    \/ PermissionSettled
    \/ EnumerateSettled
    \/ HandleListCameras
    \/ ImportWrapper
    \/ ChildClose
    \/ HandleUpdateCameras

Spec == Init /\ [][Next]_vars

\* the renderer's event loop runs the continuation of loadCameras once the
\* answer to listCameras() is there
LiveSpec == Init /\ [][Next]_vars /\ WF_vars(ReceiveListResult)

(***************************************************************************)
(* The merge step on its own: a refresh whose discovery has answered with  *)
(* an adapter list A of up to MaxListA entries, about to ask for the       *)
(* camera permission; B has up to MaxListB entries.                        *)
(***************************************************************************)
MergeCameraLists ==
    {listCameras([ok |-> TRUE, devices |-> d]).cameras : d \in MergeDeviceLists}

MergeInit ==
    /\ shell \in {"headless", "ui"}
    /\ host = "cjs"
    /\ cameras \in MergeCameraLists
    /\ isLoading = TRUE
    /\ view = IF shell = "ui" THEN showLoadingState({}) ELSE {}
    /\ errorMessage = <<>>
    /\ pc = "awaitPermission"
    /\ result = Resolved(TRUE, cameras, <<>>)
    /\ lastCall = "started"
    /\ pendingCalls = 0
    /\ mainPc = "idle"
    /\ esmError = <<>>
    /\ reply = NoReply
    /\ currentCameras = cameras
    /\ updateQueue = <<>>
    /\ discovery \in {Discovered([ok |-> TRUE, devices |-> d]) :
                         d \in {e \in MergeDeviceLists :
                                  listCameras([ok |-> TRUE, devices |-> e]).cameras = cameras}}
    /\ media = NoMedia
    /\ call = NoCall
    /\ currentStream = 0
    /\ streams = <<>>
    /\ selections = <<>>
    /\ hadCameras = FALSE

MergeEnumerateSettled == EnumerateSettledFrom(MergeMediaLists)

MergeNext ==
    \/ PermissionSettled
    \/ MergeEnumerateSettled
    \/ HandleUpdateCameras

MergeSpec == MergeInit /\ [][MergeNext]_vars


(***************************************************************************)
(* The wrapper's methods, the Command Surface and the Label Correlator     *)
(* used on their own: the application is started and takes no step; each   *)
(* action is one call, recorded with its inputs and what it returned.  The  *)
(* wrapper keeps nothing between calls, so a behaviour holds one call.      *)
(***************************************************************************)
\* longest device list the USB library returns to such a call
MaxCallDevices == 2

CallOutcomes ==
    {[ok |-> TRUE, devices |-> d] : d \in SeqsUpTo(DevicePool, MaxCallDevices)}
    \cup {[ok |-> FALSE, thrown |-> e] : e \in ThrownValues}

\* vendor arguments: numbers, hex strings with and without prefix, padded,
\* in upper case, a string of decimal digits, a string that is no number
VendorArgs ==
    {NumberArg(1133), NumberArg(0), NumberArg(4403)}
    \cup {StringArg(t) : t \in { <<"0","x","4","6","d">>, <<"4","6","d">>,
                                 <<"0","x","0","4","6","d">>, <<"0","X","4","6","D">>,
                                 <<"0","x","0">>, <<"1","1","3","3">>, <<"z","z">> }}

ProductArgs ==
    {NumberArg(2093), NumberArg(65535)}
    \cup {StringArg(t) : t \in { <<"0","x","8","2","d">>, <<"0","8","2","D">>,
                                 <<"0","x","f","f","f","f">>, <<"F","F","F","F">>,
                                 <<"z","z">> }}

\* labels composed of a prefix, an opening bracket, two groups of hex digits
\* around a separator, a closing bracket and a suffix
LabelPrefixes ==
    { <<>>,
      <<"G","e","n","e","r","i","c"," ","C","a","m","e","r","a"," ">>,
      <<"H","D","-">> }

IdGroups ==
    { <<"1","9","0","8">>, <<"2","3","1","1">>, <<"4","6","d">>, <<"0","4","6","D">>,
      <<"0","8","2","D">> }

IdSeparators == { <<":">>, <<"x">>, <<" ",":"," ">> }

IdBrackets ==
    { [open |-> <<"(">>, close |-> <<")">>],
      [open |-> <<"[">>, close |-> <<"]">>],
      [open |-> <<>>, close |-> <<>>] }

LabelSuffixes == { <<>>, <<" ","U","S","B">> }

\* labels without an id pair
PlainLabels ==
    { <<"G","e","n","e","r","i","c"," ","C","a","m","e","r","a">>,
      <<>>,
      <<"C","a","m"," ","1","2",":","3","4">>,
      <<"F","a","c","e"," ","T","i","m","e"," ","H","D">> }

composedLabel(prefix, bracket, g1, separator, g2, suffix) ==
    prefix \o bracket.open \o g1 \o separator \o g2 \o bracket.close \o suffix

CallInit == Init /\ shell = "headless" /\ host = "cjs"

applicationVars ==
    << shell, host, cameras, isLoading, view, errorMessage, pc, result, lastCall,
       pendingCalls, mainPc, esmError, reply, currentCameras, updateQueue,
       discovery, media, hadCameras >>

CallFindCamera ==
    /\ call = NoCall
    /\ \E outcome \in CallOutcomes, vendor \in VendorArgs, product \in ProductArgs :
          call' = [method |-> "findCamera", outcome |-> outcome,
                   vendor |-> vendor, product |-> product,
                   returned |-> findCamera(outcome, vendor, product)]
    /\ UNCHANGED << applicationVars, previewVars >>

CallGetCameraCount ==
    /\ call = NoCall
    /\ \E outcome \in CallOutcomes :
          call' = [method |-> "getCameraCount", outcome |-> outcome,
                   returned |-> getCameraCount(outcome)]
    /\ UNCHANGED << applicationVars, previewVars >>

CallGetFormattedList ==
    /\ call = NoCall
    /\ \E outcome \in CallOutcomes :
          call' = [method |-> "getFormattedList", outcome |-> outcome,
                   returned |-> getFormattedList(outcome)]
    /\ UNCHANGED << applicationVars, previewVars >>

\* `node camera-lister-wrapper.js` with or without the argument --json; the
\* CLI block reads process.argv[1] only
RunCommand ==
    /\ call = NoCall
    /\ \E argv \in {<<>>, <<"--json">>}, outcome \in CallOutcomes :
          call' = [method |-> "command", argv |-> argv, outcome |-> outcome,
                   returned |-> commandSurface(outcome)]
    /\ UNCHANGED << applicationVars, previewVars >>

CallExtractComposed ==
    /\ call = NoCall
    /\ \E prefix \in LabelPrefixes, bracket \in IdBrackets, g1 \in IdGroups,
          separator \in IdSeparators, g2 \in IdGroups, suffix \in LabelSuffixes :
          call' = [method |-> "extractVendorProductFromLabel",
                   label |-> composedLabel(prefix, bracket, g1, separator, g2, suffix),
                   composed |-> TRUE, g1 |-> g1, g2 |-> g2,
                   returned |-> extractVendorProductFromLabel(
                                   composedLabel(prefix, bracket, g1, separator, g2, suffix))]
    /\ UNCHANGED << applicationVars, previewVars >>

CallExtractPlain ==
    /\ call = NoCall
    /\ \E label \in PlainLabels :
          call' = [method |-> "extractVendorProductFromLabel", label |-> label,
                   composed |-> FALSE, g1 |-> <<>>, g2 |-> <<>>,
                   returned |-> extractVendorProductFromLabel(label)]
    /\ UNCHANGED << applicationVars, previewVars >>

CallNext ==
    \/ CallFindCamera
    \/ CallGetCameraCount
    \/ CallGetFormattedList
    \/ RunCommand
    \/ CallExtractComposed
    \/ CallExtractPlain

CallSpec == CallInit /\ [][CallNext]_vars

(***************************************************************************)
(* Every vendor id from 0 to MaxId in turn, with product id MaxId - vendor: *)
(* the device is listed and then looked up by the hex fields of its record. *)
(***************************************************************************)
\* largest vendor or product id (USB ids are 16 bits wide)
MaxId == 65535

deviceWithVendor(v) ==
    [name |-> NameCamA, vendor |-> v, product |-> MaxId - v, address |-> 1]

listedAlone(v) == [ok |-> TRUE, devices |-> <<deviceWithVendor(v)>>]

lookUpByHex(outcome, camera) ==
    findCamera(outcome, StringArg(camera.vendorHex), StringArg(camera.productHex))

\* listCameras on the device alone, then findCamera(c.vendorHex, c.productHex)
roundTripOf(v) ==
    [method |-> "roundTrip", value |-> v, outcome |-> listedAlone(v),
     returned |-> lookUpByHex(listedAlone(v), listCameras(listedAlone(v)).cameras[1])]

HexRoundTrip ==
    /\ IF call = NoCall
       THEN call' = roundTripOf(0)
       ELSE /\ call.value < MaxId
            /\ call' = roundTripOf(call.value + 1)
    /\ UNCHANGED << applicationVars, previewVars >>

HexNext == HexRoundTrip

HexSpec == CallInit /\ [][HexNext]_vars

(***************************************************************************)
(* Preview: camera selections.  The Devices menu sends menu-select-camera  *)
(* with an entry of currentCameras and the renderer calls                  *)
(* startStreamForCamera; the calls interleave at their awaits.             *)
(***************************************************************************)
\* selections made in one behaviour
MaxSelections == 3

NameWeb == <<"W","e","b">>

\* entries the menu can send: entries of the adapter, which carry no
\* deviceId, and a merged entry with the handle recorded at merge time
SelectableCameras ==
    { [name |-> NameCamA, deviceId |-> <<>>],
      [name |-> NameCamB, deviceId |-> <<>>],
      [name |-> NameWeb, deviceId |-> <<"d", "1">>] }

\* this.currentStream.getTracks().forEach(t => t.stop())
stopTracks(all, id) == IF id = 0 THEN all ELSE [all EXCEPT ![id].stopped = TRUE]

\* videoInputs.find(v => (v.label || '').toLowerCase().includes(name))
matchingInputs(videoInputs, name) ==
    {i \in 1..Len(videoInputs) : includes(toLowerCase(videoInputs[i].label), name)}

\* if (match) targetDeviceId = match.deviceId
deviceIdOfMatch(videoInputs, found) ==
    IF found = {} THEN <<>>
    ELSE videoInputs[CHOOSE i \in found : \A j \in found : i <= j].deviceId

resolveDeviceId(devices, camera) ==
    deviceIdOfMatch(videoInputsOf(devices),
                    matchingInputs(videoInputsOf(devices), toLowerCase(camera.name)))

\* the message of the ReferenceError the catch block raises: targetDeviceId
\* is declared with `let` inside the try block and is not in scope in catch
ScopeErrorMessage == <<"targetDeviceId is not defined">>

\* the call's synchronous start: the previous stream is stopped and
\* forgotten, and the call suspends at its first await
startStreamForCamera ==
    /\ Len(selections) < MaxSelections
    /\ \E camera \in SelectableCameras :
          selections' = Append(selections,
              [ camera |-> camera,
                targetDeviceId |-> camera.deviceId,
                pc |-> IF camera.deviceId # <<>> THEN "awaitStream" ELSE "awaitPermission",
                stream |-> 0,
                fallback |-> "none",
                thrown |-> <<>> ])
    /\ streams' = stopTracks(streams, currentStream)
    /\ currentStream' = 0
    /\ UNCHANGED << call, applicationVars >>

\* ensureCameraPermission settles; its failure is caught inside it
SelectionPermissionSettled ==
    /\ \E k \in 1..Len(selections) :
          /\ selections[k].pc = "awaitPermission"
          /\ selections' = [selections EXCEPT ![k].pc = "awaitEnumerate"]
    /\ UNCHANGED << call, applicationVars, currentStream, streams >>

\* enumerateDevices settles; a rejection is caught and leaves targetDeviceId ''
SelectionEnumerateSettled ==
    /\ \E k \in 1..Len(selections), ok \in BOOLEAN, devices \in MediaDeviceLists :
          /\ selections[k].pc = "awaitEnumerate"
          /\ ~ok => devices = <<>>
          /\ selections' =
                [selections EXCEPT
                    ![k].pc = "awaitStream",
                    ![k].targetDeviceId =
                        IF ok THEN resolveDeviceId(devices, selections[k].camera) ELSE <<>>]
    /\ UNCHANGED << call, applicationVars, currentStream, streams >>

\* getUserMedia(constraints) fulfils: the stream becomes the current stream
\* and is rendered
StreamGranted ==
    /\ \E k \in 1..Len(selections) :
          /\ selections[k].pc = "awaitStream"
          /\ selections' = [selections EXCEPT ![k].pc = "rendered",
                                              ![k].stream = Len(streams) + 1]
    /\ streams' = Append(streams, [stopped |-> FALSE])
    /\ currentStream' = Len(streams) + 1
    /\ UNCHANGED << call, applicationVars >>

\* getUserMedia(constraints) rejects: the catch block evaluates
\* `if (targetDeviceId)`, which raises the ReferenceError; the call rejects
\* with it and no further request is made
StreamRefused ==
    /\ \E k \in 1..Len(selections) :
          /\ selections[k].pc = "awaitStream"
          /\ selections' = [selections EXCEPT ![k].pc = "failed",
                                              ![k].thrown = ScopeErrorMessage]
    /\ UNCHANGED << call, applicationVars, currentStream, streams >>

PreviewNext ==
    \/ startStreamForCamera
    \/ SelectionPermissionSettled
    \/ SelectionEnumerateSettled
    \/ StreamGranted
    \/ StreamRefused

PreviewSpec == CallInit /\ [][PreviewNext]_vars

(***************************************************************************)
(* Properties                                                              *)
(***************************************************************************)
IsPrefix(a, b) == Len(a) <= Len(b) /\ SubSeq(b, 1, Len(a)) = a

\* the refresh has run to its end
refreshEnded == pc = "idle"

\* the discovery of this refresh ended with listCameras failing
discoveryFailed == discovery.status = "done" /\ ~discovery.returned.ok

\* C1: while a refresh is in flight (isLoading), a further loadCameras call
\* changes nothing of the renderer or the main process: no step taken while
\* loading issues another list-cameras request, the shell keeps showing the
\* loading state for as long as it is loading, and the step that records the
\* ignored call leaves every other variable as it was.
C1_RefreshIgnoredWhileLoading ==
    [][isLoading =>
         /\ pendingCalls' <= pendingCalls
         /\ pendingCalls <= 1
         /\ (shell = "ui" => view = {"loading"})
         /\ (isLoading' => view' = view)
         /\ (lastCall' # lastCall =>
                /\ lastCall' = "ignored"
                /\ UNCHANGED << cameras, isLoading, view, errorMessage, pc, result,
                                pendingCalls, mainPc, esmError, reply, currentCameras,
                                updateQueue >>)]_vars

\* a refresh trigger arrived while the request of the refresh in flight was
\* still unanswered, and was ignored
C1_Witness == isLoading /\ lastCall = "ignored" /\ pendingCalls = 1 /\ pc = "awaitList"

\* C2: whenever the discovery of a refresh has failed, the refresh does not
\* end on a successful response: the renderer received a failure, and the
\* shell with state views ends in the error state showing a message.
C2_DiscoveryFailureShown ==
    (refreshEnded /\ discoveryFailed) =>
        /\ ~result.success
        /\ (shell = "ui" => (view = {"error"} /\ errorMessage # <<>>))

\* C3 as stated: after a failed permission request or a failed
\* enumerateDevices the refresh ends with exactly the adapter list A, in the
\* camera-list or empty state.
C3_MergeFailureKeepsA ==
    (refreshEnded /\ result.success
        /\ (media.permission = "denied" \/ media.enumerate = "failed")) =>
        /\ cameras = result.cameras
        /\ (shell = "ui" => view \in {{"cameraList"}, {"empty"}})

\* C3 amended: a failed enumerateDevices leaves the list equal to A; a failed
\* permission request alone is swallowed inside ensureCameraPermission and
\* the merge still runs on what enumerateDevices returns, so the list starts
\* with A and may go on with appended entries.  In both cases the shell ends
\* in the camera-list state (list not empty) or the empty state, never in the
\* error state.
C3_MediaFailureSwallowed ==
    (refreshEnded /\ result.success
        /\ (media.permission = "denied" \/ media.enumerate = "failed")) =>
        /\ (media.enumerate = "failed" => cameras = result.cameras)
        /\ IsPrefix(result.cameras, cameras)
        /\ "error" \notin view
        /\ errorMessage = <<>>
        /\ (shell = "ui" => view = IF Len(cameras) = 0 THEN {"empty"} ELSE {"cameraList"})

\* both the permission request and enumerateDevices failed after the
\* discovery had listed one camera, and the shell shows the camera list
C3_Witness ==
    /\ refreshEnded /\ result.success
    /\ media.permission = "denied" /\ media.enumerate = "failed"
    /\ Len(result.cameras) = 1 /\ view = {"cameraList"}


\* the merge loop of this refresh ran to its end
mergeCompleted == refreshEnded /\ result.success /\ media.enumerate = "ok"

\* the entries the merge appended behind the adapter list A (= result.cameras)
appended == SubSeq(cameras, Len(result.cameras) + 1, Len(cameras))

\* the trimmed display labels of the video inputs of B, in B's order
labelOf(v) == trim(OrElse(v.label, UnknownCamera))

videoLabels(devices) ==
    [k \in 1..Len(videoInputsOf(devices)) |-> labelOf(videoInputsOf(devices)[k])]

\* same lower-cased name and same vendor:product pair, the pair not 0:0
sameIdentity(a, b) ==
    /\ toLowerCase(a.name) = toLowerCase(b.name)
    /\ a.vendor = b.vendor /\ a.product = b.product
    /\ (a.vendor # 0 \/ a.product # 0)

\* C4 as stated: after a completed merge no two distinct entries of the list
\* share both the lower-cased name and a nonzero vendor:product pair.
C4_NoTwoEntriesShareIdentity ==
    mergeCompleted =>
        \A i, j \in 1..Len(cameras) : i < j => ~sameIdentity(cameras[i], cameras[j])

\* C4 amended: after a completed merge no entry appended by the merge shares
\* both the lower-cased name and a nonzero vendor:product pair with any other
\* entry of the list.  Two entries of A itself may coincide: the merge never
\* removes an entry of A.
C4_NoAppendedEntrySharesIdentity ==
    mergeCompleted =>
        \A i \in 1..Len(cameras), j \in (Len(result.cameras) + 1)..Len(cameras) :
            i # j => ~sameIdentity(cameras[i], cameras[j])

\* A holds the same camera twice, B has two video inputs, and the merge
\* appended an entry with an id pair for one of them only
C4_Witness ==
    /\ mergeCompleted
    /\ Len(result.cameras) = 2
    /\ sameIdentity(result.cameras[1], result.cameras[2])
    /\ Len(videoInputsOf(media.devices)) = 2
    /\ Len(appended) = 1
    /\ appended[1].vendor # 0

\* C5: after a completed merge, a video input of B whose trimmed, lower-cased
\* label equals the lower-cased name of an entry of A has added no entry: no
\* appended entry carries that name.
C5_LabelNamedLikeAdapterEntrySkipped ==
    mergeCompleted =>
        \A k \in 1..Len(appended) :
            toLowerCase(appended[k].name) \notin
                {toLowerCase(result.cameras[i].name) : i \in 1..Len(result.cameras)}

\* an entry of A with both ids nonzero has the pair the correlator extracted
pairOfNonzeroEntry(cams, parsed) ==
    \E i \in 1..Len(cams) :
        /\ cams[i].vendor # 0 /\ cams[i].product # 0
        /\ cams[i].vendor = parsed.vendor /\ cams[i].product = parsed.product

nameOfEntry(cams, label) ==
    \E i \in 1..Len(cams) : toLowerCase(cams[i].name) = toLowerCase(label)

\* what C6 says of one label of B, given what the correlator extracted
pairSkipRule(label, parsed) ==
    parsed.found =>
        IF pairOfNonzeroEntry(result.cameras, parsed)
        THEN \A k \in 1..Len(appended) : appended[k].name # label
        ELSE nameOfEntry(result.cameras, label)
             \/ \E k \in 1..Len(appended) :
                   /\ appended[k].vendor = parsed.vendor
                   /\ appended[k].product = parsed.product

\* C6: after a completed merge, a label of B from which the correlator
\* extracts the id pair of an entry of A with both ids nonzero has added no
\* entry; a label whose pair is that of no such entry (it may be the pair of
\* an entry of A with a zero id) and whose name is not in A is not skipped on
\* account of A: an entry with its pair has been appended.
C6_PairOfAdapterEntrySkipped ==
    mergeCompleted =>
        \A k \in 1..Len(videoLabels(media.devices)) :
            pairSkipRule(videoLabels(media.devices)[k],
                         extractVendorProductFromLabel(videoLabels(media.devices)[k]))

\* A holds a camera with ids 046d:082d and one with a zero vendor id; B holds
\* a label with each of the two pairs; only the second one was appended
C6_Witness ==
    /\ mergeCompleted
    /\ Len(result.cameras) = 2
    /\ result.cameras[1].vendor = 1133 /\ result.cameras[2].vendor = 0
    /\ Len(videoInputsOf(media.devices)) = 2
    /\ extractVendorProductFromLabel(videoLabels(media.devices)[1]).found
    /\ extractVendorProductFromLabel(videoLabels(media.devices)[1]).vendor = 1133
    /\ Len(appended) = 1
    /\ appended[1].vendor = 0 /\ appended[1].product = 65535

RECURSIVE IsSubsequence(_, _)
IsSubsequence(a, b) ==
    IF a = <<>> THEN TRUE
    ELSE IF b = <<>> THEN FALSE
    ELSE IF Head(a) = Head(b) THEN IsSubsequence(Tail(a), Tail(b))
    ELSE IsSubsequence(a, Tail(b))

namesOf(cams) == [k \in 1..Len(cams) |-> cams[k].name]

\* C7: when the refresh has ended the list begins with A unchanged, entry by
\* entry and in A's order, and the names of the entries behind it are labels
\* of B's video inputs in the order B gives them.
C7_AdapterListIsPrefix ==
    (refreshEnded /\ result.success) =>
        /\ IsPrefix(result.cameras, cameras)
        /\ IsSubsequence(namesOf(appended), videoLabels(media.devices))

\* two labels of B with different names were appended behind a list A of two
C7_Witness ==
    /\ mergeCompleted
    /\ Len(result.cameras) = 2
    /\ Len(appended) = 2
    /\ appended[1].name # appended[2].name


\* value of a lower-case hexadecimal digit
digitValue(c) == IndexOf(HexChars, c) - 1

\* h is "0x" followed by exactly four lower-case hexadecimal digits whose
\* value is n
isFourDigitHexOf(h, n) ==
    /\ Len(h) = 6
    /\ h[1] = "0" /\ h[2] = "x"
    /\ \A k \in 3..6 : h[k] \in Range(HexChars)
    /\ n = 4096 * digitValue(h[3]) + 256 * digitValue(h[4])
           + 16 * digitValue(h[5]) + digitValue(h[6])

hexFieldsConsistent(cams) ==
    \A k \in 1..Len(cams) :
        /\ cams[k].vendor \in 0..65535 /\ cams[k].product \in 0..65535
        /\ isFourDigitHexOf(cams[k].vendorHex, cams[k].vendor)
        /\ isFourDigitHexOf(cams[k].productHex, cams[k].product)

libraryThrew == discovery.status = "done" /\ ~discovery.lib.ok

\* an Error whose message contains the code
isErrorWith(e, code) == e.isError /\ includes(e.message, <<code>>)

\* C9: when the library's discovery throws an Error whose message contains
\* LIBUSB_ERROR_ACCESS, listCameras fails, and the message of the error it
\* throws holds the permission guidance (sudo / udev rules) and holds neither
\* the library's message nor the code LIBUSB_ERROR_ACCESS.
C9_AccessDeniedRewritten ==
    (libraryThrew /\ isErrorWith(discovery.lib.thrown, "LIBUSB_ERROR_ACCESS")) =>
        /\ ~discovery.returned.ok
        /\ includes(discovery.returned.thrown.message,
                    <<"Permission denied accessing USB devices. ">>)
        /\ includes(discovery.returned.thrown.message,
                    <<"On Linux, you may need to run with sudo or configure udev rules. ">>)
        /\ ~includes(discovery.returned.thrown.message, discovery.lib.thrown.message)
        /\ ~includes(discovery.returned.thrown.message, <<"LIBUSB_ERROR_ACCESS">>)

\* the discovery threw Error('usb open failed: LIBUSB_ERROR_ACCESS') and the
\* refresh ended in the error state showing the permission guidance
C9_Witness ==
    /\ refreshEnded /\ libraryThrew
    /\ discovery.lib.thrown.message = <<"usb open failed: ", "LIBUSB_ERROR_ACCESS">>
    /\ discovery.lib.thrown.isError
    /\ view = {"error"}
    /\ includes(errorMessage, <<"Permission denied accessing USB devices. ">>)

\* C10: when the library's discovery throws an Error whose message contains
\* LIBUSB_ERROR_NOT_FOUND, listCameras fails (it returns no list) with an
\* Error whose message says that no UVC-compatible camera was found and does
\* not hold the code; when the discovery returns zero devices, listCameras
\* returns the empty list and does not fail.
C10_NotFoundStillFails ==
    discovery.status = "done" =>
        /\ (~discovery.lib.ok
              /\ isErrorWith(discovery.lib.thrown, "LIBUSB_ERROR_NOT_FOUND")) =>
                 /\ ~discovery.returned.ok
                 /\ discovery.returned.thrown.isError
                 /\ includes(discovery.returned.thrown.message,
                             <<"No UVC-compatible cameras found">>)
                 /\ ~includes(discovery.returned.thrown.message,
                              <<"LIBUSB_ERROR_NOT_FOUND">>)
        /\ (discovery.lib.ok /\ discovery.lib.devices = <<>>) =>
                 /\ discovery.returned.ok
                 /\ discovery.returned.cameras = <<>>

\* the discovery threw Error('LIBUSB_ERROR_NOT_FOUND') and the refresh ended
\* in the error state showing the rewritten message
C10_Witness ==
    /\ refreshEnded /\ libraryThrew
    /\ isErrorWith(discovery.lib.thrown, "LIBUSB_ERROR_NOT_FOUND")
    /\ view = {"error"}
    /\ includes(errorMessage, <<"No UVC-compatible cameras found">>)


\* C11: when the library's discovery throws a value that is neither an Error
\* whose message contains LIBUSB_ERROR_ACCESS nor an Error whose message
\* contains LIBUSB_ERROR_NOT_FOUND (a value that is no Error object
\* included), listCameras fails with that very value: same kind of object,
\* same message.
C11_OtherFailuresPassUnchanged ==
    (libraryThrew
        /\ ~isErrorWith(discovery.lib.thrown, "LIBUSB_ERROR_ACCESS")
        /\ ~isErrorWith(discovery.lib.thrown, "LIBUSB_ERROR_NOT_FOUND")) =>
        /\ ~discovery.returned.ok
        /\ discovery.returned.thrown = discovery.lib.thrown

\* the discovery threw a value that is no Error object, and the refresh
\* ended in the error state showing that value's message unchanged
C11_Witness ==
    /\ refreshEnded /\ libraryThrew
    /\ ~discovery.lib.thrown.isError
    /\ view = {"error"}
    /\ includes(errorMessage, discovery.lib.thrown.message)
    /\ ~includes(errorMessage, <<"Permission denied accessing USB devices. ">>)


\* hex strings and the integers they denote
HexFormValues ==
    { [text |-> <<"0","x","4","6","d">>, value |-> 1133],
      [text |-> <<"4","6","d">>, value |-> 1133],
      [text |-> <<"0","x","0","4","6","d">>, value |-> 1133],
      [text |-> <<"0","X","4","6","D">>, value |-> 1133],
      [text |-> <<"1","1","3","3">>, value |-> 4403],
      [text |-> <<"0","x","0">>, value |-> 0],
      [text |-> <<"0","x","8","2","d">>, value |-> 2093],
      [text |-> <<"0","8","2","D">>, value |-> 2093],
      [text |-> <<"0","x","f","f","f","f">>, value |-> 65535],
      [text |-> <<"F","F","F","F">>, value |-> 65535] }

\* the same id passed as an integer
asInteger(arg) ==
    IF arg.isString
    THEN {NumberArg(f.value) : f \in {g \in HexFormValues : g.text = arg.text}}
    ELSE {arg}

\* C12: a findCamera call whose vendor or product is a hex string (with or
\* without the prefix 0x) returns what findCamera returns on the same
\* discovery when the id is passed as the integer of the same value.
C12_HexStringSameAsInteger ==
    call.method = "findCamera" =>
        \A v \in asInteger(call.vendor), p \in asInteger(call.product) :
            call.returned = findCamera(call.outcome, v, p)

\* findCamera('0x46d', '082D') found the camera 1133/2093 on a list of two
C12_Witness ==
    /\ call.method = "findCamera"
    /\ call.vendor = StringArg(<<"0","x","4","6","d">>)
    /\ call.product = StringArg(<<"0","8","2","D">>)
    /\ call.outcome.ok /\ Len(call.outcome.devices) = 2
    /\ call.returned.ok /\ ~call.returned.value.isNull
    /\ call.returned.value.camera.vendor = 1133
    /\ call.returned.value.camera.product = 2093

first(S) == CHOOSE i \in S : \A j \in S : i <= j

\* indices of the records of the list with these ids
matching(cams, vendorNum, productNum) ==
    {i \in 1..Len(cams) : cams[i].vendor = vendorNum /\ cams[i].product = productNum}

firstOrNull(cams, found) ==
    IF found = {} THEN NullCamera ELSE FoundCamera(cams[first(found)])

\* C13: when the discovery succeeded, findCamera does not fail and returns
\* the record of lowest index whose vendor and product both equal the
\* normalized arguments, or null when no record does (as on an empty list).
C13_FirstMatchOrNull ==
    (call.method = "findCamera" /\ call.outcome.ok) =>
        /\ call.returned.ok
        /\ call.returned.value =
              firstOrNull(listCameras(call.outcome).cameras,
                          matching(listCameras(call.outcome).cameras,
                                   normalizeId(call.vendor), normalizeId(call.product)))

\* two cameras with the same ids at different addresses: the first is found
C13_Witness ==
    /\ call.method = "findCamera" /\ call.outcome.ok
    /\ Len(call.outcome.devices) = 2
    /\ call.outcome.devices[1].address # call.outcome.devices[2].address
    /\ call.outcome.devices[1].vendor = call.outcome.devices[2].vendor
    /\ call.outcome.devices[1].product = call.outcome.devices[2].product
    /\ ~call.returned.value.isNull
    /\ call.returned.value.camera.address = call.outcome.devices[1].address


roundTripsTo(camera, returned) ==
    /\ normalizeId(StringArg(camera.vendorHex)) = camera.vendor
    /\ normalizeId(StringArg(camera.productHex)) = camera.product
    /\ returned.ok
    /\ returned.value = FoundCamera(camera)

\* C14: for every vendor and product id from 0 to MaxId, findCamera's string
\* normalization (strip '0x', parse base 16) applied to the vendorHex and
\* productHex of the listed record gives back vendor and product, and
\* findCamera(c.vendorHex, c.productHex) returns that record c.
C14_HexRoundTrip ==
    call.method = "roundTrip" =>
        /\ listCameras(call.outcome).cameras[1].vendor = call.value
        /\ listCameras(call.outcome).cameras[1].product = MaxId - call.value
        /\ roundTripsTo(listCameras(call.outcome).cameras[1], call.returned)

\* the camera 046d (1133) was listed and found again by '0x046d'
C14_Witness ==
    /\ call.method = "roundTrip"
    /\ call.value = 1133
    /\ call.returned.ok /\ ~call.returned.value.isNull
    /\ call.returned.value.camera.vendorHex = <<"0","x","0","4","6","d">>
    /\ call.returned.value.camera.vendor = 1133


\* C15: when the discovery returns zero devices, getFormattedList returns
\* exactly the sentence "No UVC-compatible cameras found." and
\* getCameraCount returns 0; whenever the discovery succeeds, getCameraCount
\* returns the length of the list listCameras returns.
C15_EmptyListSentenceAndCount ==
    /\ (call.method = "getFormattedList" /\ call.outcome.ok
            /\ call.outcome.devices = <<>>) =>
           /\ call.returned.ok
           /\ call.returned.text = <<"No UVC-compatible cameras found", ".">>
    /\ (call.method = "getCameraCount" /\ call.outcome.ok) =>
           /\ call.returned.ok
           /\ call.returned.count = Len(listCameras(call.outcome).cameras)
           /\ (call.outcome.devices = <<>> => call.returned.count = 0)

\* getFormattedList was called while no device was attached
C15_Witness ==
    /\ call.method = "getFormattedList"
    /\ call.outcome.ok /\ call.outcome.devices = <<>>
    /\ call.returned.ok
    /\ Len(call.returned.text) = 2


\* the hex groups of the composed labels and the integers they denote
GroupValues ==
    { [text |-> <<"1","9","0","8">>, value |-> 6408],
      [text |-> <<"2","3","1","1">>, value |-> 8977],
      [text |-> <<"4","6","d">>, value |-> 1133],
      [text |-> <<"0","4","6","D">>, value |-> 1133],
      [text |-> <<"0","8","2","D">>, value |-> 2093] }

valueOfGroup(g) == (CHOOSE f \in GroupValues : f.text = g).value

C17_RequestAnsweredWithRecord ==
    reply.kind # "none" =>
        /\ reply.kind = "resolved"
        /\ (discovery.status = "done" =>
               IF discovery.returned.ok
               THEN reply.success
               ELSE ~reply.success /\ reply.error # <<>>)

\* C18: the shell with state views shows exactly one of its four state
\* elements at any time, and a refresh that has ended shows the camera list
\* iff the discovery succeeded and the unified list is non-empty, the empty
\* state iff it succeeded and the list is empty, and the error state, with a
\* message, iff listCameras raised.
C18_OneStateAndOutcomePerRefresh ==
    shell = "ui" =>
        /\ view \subseteq StateElements /\ Cardinality(view) = 1
        /\ (refreshEnded /\ discovery.status = "done") =>
               /\ view = {"cameraList"} <=> (discovery.returned.ok /\ Len(cameras) > 0)
               /\ view = {"empty"} <=> (discovery.returned.ok /\ Len(cameras) = 0)
               /\ view = {"error"} <=> ~discovery.returned.ok
               /\ view = {"error"} => errorMessage # <<>>

\* what a run of the command printed and how it ended, against the result r
\* of the discovery and the formatted text of its list
commandOutcomeMatches(out, r, formatted) ==
    IF r.ok
    THEN /\ out.code = 0
         /\ out.stdout = formatted.text \o <<"\n">>
         /\ out.stderr = <<>>
    ELSE /\ out.code = 1
         /\ out.stdout = <<>>
         /\ IsPrefix(<<"Error listing cameras: ">>, out.stderr)
         /\ includes(out.stderr, r.thrown.message)

\* C19: a run of the wrapper as a command ends with status 0 and the
\* formatted list on standard output when its discovery succeeded, with zero
\* cameras as well, and with status 1 and an error message on standard error
\* when its discovery failed.
C19_CommandExitStatus ==
    call.method = "command" =>
        commandOutcomeMatches(call.returned, listCameras(call.outcome),
                              getFormattedList(call.outcome))

\* a run whose discovery was denied access ended with status 1 and the
\* rewritten message
C19_Witness ==
    /\ call.method = "command"
    /\ ~call.outcome.ok
    /\ call.returned.code = 1
    /\ call.returned.stderr = <<"Error listing cameras: ">> \o AccessDeniedMessage \o <<"\n">>

\* C20: a run of the command with the argument --json whose discovery
\* succeeded prints, on standard output, exactly the JSON array of the
\* CameraDevice records listCameras returned, which is [] for no camera.
C20_JsonModePrintsArray ==
    (call.method = "command" /\ call.argv = <<"--json">> /\ call.outcome.ok) =>
        trim(call.returned.stdout) = jsonStringify(listCameras(call.outcome).cameras)

\* C21: every preview stream that still has running tracks is the one
\* this.currentStream refers to; so at most one has, and each stream acquired
\* earlier has been stopped.
C21_OnlyCurrentStreamRuns ==
    \A i \in 1..Len(streams) : ~streams[i].stopped => currentStream = i

\* C22: a selection fails only if no handle was resolved for it or its
\* unconstrained second request failed as well.
C22_FallbackToDefaultStream ==
    \A k \in 1..Len(selections) :
        selections[k].pc = "failed" =>
            \/ selections[k].targetDeviceId = <<>>
            \/ selections[k].fallback = "failed"

\* two entries a merge pass must not both append: the same lower-cased name,
\* or the same extracted id-pair key
sameNameOrKey(a, b, parsedA, parsedB) ==
    \/ toLowerCase(a.name) = toLowerCase(b.name)
    \/ (parsedA.found /\ parsedB.found /\ parsedA.pairKey = parsedB.pairKey)

\* C23: among the entries one merge pass appended no two have the same
\* lower-cased name or the same extracted id-pair key, so a label that list B
\* holds twice is appended at most once.
C23_RepeatedLabelAppendedOnce ==
    mergeCompleted =>
        \A i, j \in 1..Len(appended) :
            i < j => ~sameNameOrKey(appended[i], appended[j],
                                    extractVendorProductFromLabel(appended[i].name),
                                    extractVendorProductFromLabel(appended[j].name))

\* the entry carries the pair the correlator extracted, or 0 and 0
carriesPairOf(entry, parsed) ==
    IF parsed.found
    THEN entry.vendor = parsed.vendor /\ entry.product = parsed.product
    ELSE entry.vendor = 0 /\ entry.product = 0

\* the entry is the one synthesized for one of the trimmed labels
synthesizedFrom(entry, labels) ==
    /\ \E k \in 1..Len(labels) : entry.name = labels[k]
    /\ carriesPairOf(entry, extractVendorProductFromLabel(entry.name))
    /\ entry.address = 0

\* C24: every entry a completed merge appended is named by the trimmed label
\* of a video input of B, carries the pair the correlator extracts from that
\* label, or 0 and 0 when it extracts none, and has address 0.
C24_AppendedEntrySynthesized ==
    mergeCompleted =>
        \A k \in 1..Len(appended) :
            synthesizedFrom(appended[k], videoLabels(media.devices))

\* a merge appended one entry with an extracted pair and one without, the
\* latter from a label the OS padded with spaces
C24_Witness ==
    /\ mergeCompleted
    /\ Len(appended) = 2
    /\ appended[1].vendor # 0 /\ appended[1].product # 0
    /\ appended[2].vendor = 0 /\ appended[2].product = 0
    /\ appended[2].name = <<"c","A","M"," ","a">>
    /\ media.devices[2].label = <<" ","c","A","M"," ","a"," ">>

\* id pairs of entries of A, each with both ids nonzero, so that a key is
\* built for it
AdapterIdPairs ==
    {[vendor |-> v, product |-> p] : v, p \in {1133, 2093, 6408, 8977}}

\* the key extracted from a label is the key of the entry exactly when the
\* two pairs of integers are equal
keyMatchesExactly(parsed, entry) ==
    (parsed.pairKey \in existingIdPairsOf(<<entry>>))
        <=> (parsed.vendor = entry.vendor /\ parsed.product = entry.product)

\* C25: the key extractVendorProductFromLabel returns for a label equals the
\* key the merge builds for an entry of A exactly when the extracted vendor
\* equals the entry's vendor and the extracted product the entry's product,
\* however the label writes the digits (case, leading zeros).
C25_KeyNormalized ==
    (call.method = "extractVendorProductFromLabel" /\ call.returned.found) =>
        \A entry \in AdapterIdPairs : keyMatchesExactly(call.returned, entry)

\* the label "(046D:082D)" gave the key of the entry 0x46d, 0x82d
C25_Witness ==
    /\ call.method = "extractVendorProductFromLabel"
    /\ call.label = <<"(","0","4","6","D",":","0","8","2","D",")">>
    /\ call.returned.found
    /\ call.returned.pairKey = <<"4","6","d",":","8","2","d">>
    /\ call.returned.pairKey \in existingIdPairsOf(<<[vendor |-> 1133, product |-> 2093]>>)

\* the request of the refresh in flight has not been answered
discoveryOutstanding == pc = "awaitList" /\ reply.kind = "none"

\* C26: as long as the list-cameras request of a refresh is unanswered, no
\* step ends the refresh: the loading flag stays set, the shell with state
\* views keeps showing the loading state, and a refresh request made in the
\* meantime is ignored and issues no request.  So a request that is never
\* answered leaves the shell loading forever.
C26_UnansweredRequestKeepsLoading ==
    /\ [][discoveryOutstanding =>
             /\ isLoading /\ isLoading'
             /\ pc' = "awaitList"
             /\ (shell = "ui" => (view = {"loading"} /\ view' = view))
             /\ pendingCalls' = pendingCalls
             /\ (lastCall' # lastCall => lastCall' = "ignored")]_vars
    /\ ([]discoveryOutstanding => [](isLoading /\ pendingCalls = 1))

\* the subprocess of the handler has not ended yet, the shell shows the
\* loading state, and a refresh requested in the meantime was ignored
C26_Witness ==
    /\ discoveryOutstanding
    /\ mainPc = "child"
    /\ shell = "ui" /\ view = {"loading"}
    /\ lastCall = "ignored"

\* the records the discovery of this refresh returned
discoveredCameras ==
    IF discovery.status = "done" /\ discovery.returned.ok
    THEN discovery.returned.cameras
    ELSE <<>>

\* C27: when a refresh has ended successfully the list is the records its
\* discovery returned followed by entries synthesized from the labels its own
\* enumeration reported; it holds nothing else, whatever the list was when
\* the refresh started.
C27_NoEntryCarriedOver ==
    (refreshEnded /\ result.success) =>
        /\ SubSeq(cameras, 1, Len(result.cameras)) = discoveredCameras
        /\ Len(result.cameras) = Len(discoveredCameras)
        /\ \A k \in (Len(discoveredCameras) + 1)..Len(cameras) :
               synthesizedFrom(cameras[k], videoLabels(media.devices))

\* the list held entries when the refresh started, and the refresh ended
\* successfully with an empty list
C27_Witness ==
    /\ refreshEnded /\ result.success
    /\ hadCameras
    /\ cameras = <<>>

\* the answer to the request of the refresh in flight has arrived
discoveryCompleted == pc = "awaitList" /\ reply.kind # "none"

\* a step that starts a refresh issues a new list-cameras request
acceptedIssuesRequest ==
    (~isLoading /\ isLoading') =>
        /\ lastCall' = "started"
        /\ pendingCalls' = pendingCalls + 1
        /\ mainPc' = "requested"

settled == refreshEnded /\ ~isLoading /\ mainPc = "idle" /\ updateQueue = <<>>

\* C29: with renderer.js on main.cjs, whenever nothing is in flight the list
\* behind the Devices menu, currentCameras, equals this.cameras of the
\* renderer.
C29_MenuListEqualsKnownList ==
    (shell = "headless" /\ host = "cjs" /\ settled) => currentCameras = cameras

\* the handler's subprocess has ended and its discovery found cameras
fallbackFoundCameras ==
    /\ mainPc = "child" /\ mainPc' = "idle"
    /\ discovery'.status = "done"
    /\ discovery'.returned.ok
    /\ Len(discovery'.returned.cameras) >= 1

\* C30: when the handler's subprocess ends after a discovery that found N >= 1
\* cameras, the handler answers success = TRUE with exactly those N records.
C30_FallbackOutputParsed ==
    [][fallbackFoundCameras =>
          /\ reply'.kind = "resolved"
          /\ reply'.success
          /\ reply'.cameras = discovery'.returned.cameras]_vars
====
